---------------------------- MODULE Spec2Model ----------------------------
(***************************************************************************)
(* A model of package sqlstruct: the field resolver typeFields (the        *)
(* breadth-first walk over embedded structs, the byName sort, the          *)
(* annihilation pass and the byIndex sort), the row mapper scan, and the   *)
(* Session's per-type field cache.                                         *)
(*                                                                         *)
(* Go strings are sequences of one-character strings, compared bytewise.   *)
(* A reflect.Type is a record [kind, id]: struct types are numbered        *)
(* 1..NumTypes, an embedded pointer is [kind |-> "ptr", id |-> j] and      *)
(* every other field type is the basic type [kind |-> "int", id |-> 0].    *)
(* Field indices are Go's, counted from 0.                                 *)
(***************************************************************************)
EXTENDS Integers, Sequences, FiniteSets, TLC

\* Bounds of the model.
NumTypes == 3
MaxFields == 2

Types == 1..NumTypes

---------------------------------------------------------------------------
(* Strings *)

\* The byte value of a character (ASCII), as Go's string comparison sees it.
Code(c) ==
    CASE c = "," -> 44
      [] c = "-" -> 45
      [] c = "1" -> 49
      [] c = "2" -> 50
      [] c = "3" -> 51
      [] c = "4" -> 52
      [] c = "T" -> 84
      [] c = "o" -> 111
      [] c = "q" -> 113
      [] c = "v" -> 118
      [] c = "w" -> 119
      [] c = "x" -> 120
      [] c = "y" -> 121
      [] c = "z" -> 122

\* Go's s < t on strings: bytewise lexicographic.
RECURSIVE StrLess(_, _)
StrLess(s, t) ==
    IF t = <<>> THEN FALSE
    ELSE IF s = <<>> THEN TRUE
    ELSE IF Head(s) # Head(t) THEN Code(Head(s)) < Code(Head(t))
    ELSE StrLess(Tail(s), Tail(t))

\* strings.Index(s, ","): the 1-based position of the first comma, 0 if none.
CommaIndex(s) ==
    IF \E k \in 1..Len(s) : s[k] = ","
    THEN CHOOSE k \in 1..Len(s) : s[k] = "," /\ \A m \in 1..(k-1) : s[m] # ","
    ELSE 0

\* parseTag: the name before the first comma and the options after it.
parseTag(tag) ==
    LET idx == CommaIndex(tag) IN
    IF idx # 0
    THEN [name |-> SubSeq(tag, 1, idx - 1), opts |-> SubSeq(tag, idx + 1, Len(tag))]
    ELSE [name |-> tag, opts |-> <<>>]

---------------------------------------------------------------------------
(* Types, as reflect reports them *)

IntType == [kind |-> "int", id |-> 0]
StructType(j) == [kind |-> "struct", id |-> j]
PtrType(j) == [kind |-> "ptr", id |-> j]

Digit(j) == CASE j = 1 -> "1" [] j = 2 -> "2" [] j = 3 -> "3" [] OTHER -> "4"

\* reflect.Type.Name(): a struct type's name, "" for an unnamed pointer type.
TypeName(t) ==
    CASE t.kind = "struct" -> <<"T", Digit(t.id)>>
      [] t.kind = "ptr" -> <<>>
      [] OTHER -> <<"i">>

\* The struct fields a record type may declare (reflect.StructField).
LeafField(n, tag, pkg) ==
    [Name |-> n, PkgPath |-> pkg, Tag |-> tag, Anonymous |-> FALSE, Type |-> IntType]

\* X int / Y int: untagged; Z int `sql:"x,o"`: tagged x with an option;
\* W int `sql:"-"`: excluded; v int: unexported.
LeafFields ==
    { LeafField(<<"x">>, <<>>, <<>>),
      LeafField(<<"y">>, <<>>, <<>>),
      LeafField(<<"z">>, <<"x", ",", "o">>, <<>>),
      LeafField(<<"w">>, <<"-">>, <<>>),
      LeafField(<<"v">>, <<>>, <<"q">>) }

\* Type i embeds type j: by value when j is declared after i, by pointer
\* otherwise (Go accepts a recursive embedding only through a pointer).
EmbedField(i, j) ==
    [Name |-> TypeName(StructType(j)), PkgPath |-> <<>>, Tag |-> <<>>,
     Anonymous |-> TRUE,
     Type |-> IF j > i THEN StructType(j) ELSE PtrType(j)]

FieldChoices(i) == LeafFields \cup { EmbedField(i, j) : j \in Types }

\* Declared names of leaf fields are distinct within one struct (an embedded
\* type may recur under an alias name).
DistinctLeaves(d) ==
    \A a, b \in 1..Len(d) :
        (a # b /\ ~d[a].Anonymous /\ ~d[b].Anonymous) => d[a].Name # d[b].Name

Decls(i) ==
    { d \in UNION { [1..n -> FieldChoices(i)] : n \in 0..MaxFields } : DistinctLeaves(d) }

\* The types a declaration embeds.
Embeds(d) == { d[k].Type.id : k \in { m \in 1..Len(d) : d[m].Anonymous } }

RECURSIVE ReachFrom(_, _)
ReachFrom(g, S) ==
    LET N == S \cup UNION { Embeds(g[t]) : t \in S } IN
    IF N = S THEN S ELSE ReachFrom(g, N)

\* The declarations each type may have.
DeclsOf == [i \in Types |-> Decls(i)]

AllDecls == UNION { DeclsOf[i] : i \in Types }

\* The type graphs: type 1 is the root handed to typeFields; a type the root
\* does not reach declares nothing.
TypeGraphs ==
    { g \in [Types -> AllDecls] :
        /\ \A i \in Types : g[i] \in DeclsOf[i]
        /\ \A i \in Types \ ReachFrom(g, {1}) : g[i] = <<>> }

Root == 1

---------------------------------------------------------------------------
(* typeFields: the walk *)

\* A field as typeFields records it.
Field(ctx, name, fname, tag, index, typ) ==
    [ctx |-> ctx, name |-> name, fname |-> fname, tag |-> tag,
     index |-> index, typ |-> typ]

\* The queue entry for a type to explore: field{name: ..., index: ..., typ: ...}.
QueueEntry(name, index, typ) == Field(<<>>, name, <<>>, FALSE, index, typ)

NoCount == [t \in Types |-> 0]

\* The type a struct field is explored as: an unnamed pointer is followed.
FollowPtr(t) ==
    IF TypeName(t) = <<>> /\ t.kind = "ptr" THEN StructType(t.id) ELSE t

\* Whether the struct field is recorded as a field (rather than explored).
IsRecorded(name, sf, ft) ==
    name # <<>> \/ ~sf.Anonymous \/ ft.kind # "struct"

\* fields = append(fields, field{...}), and a second copy when the type was
\* queued more than once at this level.
AppendFound(fields, fld, cnt) ==
    IF cnt > 1 THEN fields \o <<fld, fld>> ELSE Append(fields, fld)

\* One iteration of the loop over f.typ's struct fields, for Go index i, on
\* acc = [next, nextCount, fields].
VisitField(g, f, cnt, i, acc) ==
    LET sf    == g[f.typ.id][i + 1]
        name  == parseTag(sf.Tag).name
        index == Append(f.index, i)
        ft    == FollowPtr(sf.Type)
    IN
    IF sf.PkgPath # <<>> THEN acc
    ELSE IF sf.Tag = <<"-">> THEN acc
    ELSE IF IsRecorded(name, sf, ft)
    THEN [acc EXCEPT !.fields =
            AppendFound(acc.fields,
                        Field(TypeName(f.typ),
                              IF name = <<>> THEN sf.Name ELSE name,
                              sf.Name, name # <<>>, index, ft),
                        cnt)]
    ELSE [acc EXCEPT
            !.nextCount = [@ EXCEPT ![ft.id] = @ + 1],
            !.next = IF acc.nextCount[ft.id] + 1 = 1
                     THEN Append(@, QueueEntry(TypeName(ft), index, ft))
                     ELSE @]

\* for i := 0; i < f.typ.NumField(); i++ { ... }
RECURSIVE VisitFields(_, _, _, _, _)
VisitFields(g, f, cnt, i, acc) ==
    IF i >= Len(g[f.typ.id]) THEN acc
    ELSE VisitFields(g, f, cnt, i + 1, VisitField(g, f, cnt, i, acc))

\* A walk that forgets which types it has visited.
NeverVisited(visited, f) == FALSE

\* if visited[f.typ] { continue }
AlreadyVisited(visited, f) == f.typ.id \in visited

---------------------------------------------------------------------------
(* typeFields: the two sorts and the annihilation pass *)

\* byIndex.Less on two index sequences.
RECURSIVE IndexLess(_, _, _)
IndexLess(a, b, k) ==
    IF k > Len(a) THEN Len(a) < Len(b)
    ELSE IF k > Len(b) THEN FALSE
    ELSE IF a[k] # b[k] THEN a[k] < b[k]
    ELSE IndexLess(a, b, k + 1)

\* An order that puts every shallower path first.
byIndexLessDepthFirst(x, y) ==
    IF Len(x.index) # Len(y.index) THEN Len(x.index) < Len(y.index)
    ELSE IndexLess(x.index, y.index, 1)

byIndexLess(x, y) == IndexLess(x.index, y.index, 1)

\* An order that compares the depths before the names.
byNameLessDepthFirst(x, y) ==
    IF Len(x.index) # Len(y.index) THEN Len(x.index) < Len(y.index)
    ELSE IF x.name # y.name THEN StrLess(x.name, y.name)
    ELSE IF x.tag # y.tag THEN x.tag
    ELSE byIndexLess(x, y)

\* byName.Less.
byNameLess(x, y) ==
    IF x.name # y.name THEN StrLess(x.name, y.name)
    ELSE IF Len(x.index) # Len(y.index) THEN Len(x.index) < Len(y.index)
    ELSE IF x.tag # y.tag THEN x.tag
    ELSE byIndexLess(x, y)

SortByName(fs) == SortSeq(fs, byNameLess)
SortByIndex(fs) == SortSeq(fs, byIndexLess)

\* A pass that drops the last kept field only for a tagged successor.
DropsLastForTagged(last, f, name) == last.name = name /\ f.tag

\* Whether the last kept field is dropped on meeting f under the same name.
DropsLast(last, f, name) == last.name = name /\ (~last.tag \/ f.tag)

\* The pass over the name-sorted list. out shares the array of fields
\* (out := fields[:0]): arr is that array, n is len(out), i the next element
\* the range loop reads, name the loop's name variable.
RECURSIVE Annihilate(_, _, _, _)
Annihilate(arr, n, i, name) ==
    IF i > Len(arr) THEN SubSeq(arr, 1, n)
    ELSE LET f == arr[i] IN
         IF f.name # name
         THEN Annihilate([arr EXCEPT ![n + 1] = f], n + 1, i + 1, f.name)
         ELSE IF n > 0 /\ DropsLast(arr[n], f, name)
         THEN Annihilate(arr, n - 1, i + 1, name)
         ELSE Annihilate(arr, n, i + 1, name)

\* Lines 177-197: what typeFields returns for the accumulated list.
Resolve(fs) == SortByIndex(Annihilate(SortByName(fs), 0, 1, <<>>))

---------------------------------------------------------------------------
(* typeFields as a function of the type, for the callers that cache it *)

\* The range loop over one level (lines 120-174), from position k, on
\* acc = [next, nextCount, fields, visited].
RECURSIVE WalkLevel(_, _, _, _, _)
WalkLevel(g, cur, k, cnt, acc) ==
    IF k > Len(cur) THEN acc
    ELSE LET f == cur[k] IN
         IF AlreadyVisited(acc.visited, f)
         THEN WalkLevel(g, cur, k + 1, cnt, acc)
         ELSE LET r == VisitFields(g, f, cnt[f.typ.id], 0,
                          [next |-> acc.next, nextCount |-> acc.nextCount,
                           fields |-> acc.fields])
              IN WalkLevel(g, cur, k + 1, cnt,
                           [next |-> r.next, nextCount |-> r.nextCount,
                            fields |-> r.fields,
                            visited |-> acc.visited \cup {f.typ.id}])

\* The loop over levels (lines 116-175): the fields found.
RECURSIVE WalkLevels(_, _, _, _, _)
WalkLevels(g, nxt, nxtCount, vis, fs) ==
    IF Len(nxt) = 0 THEN fs
    ELSE LET acc == WalkLevel(g, nxt, 1, nxtCount,
                        [next |-> <<>>, nextCount |-> NoCount,
                         fields |-> fs, visited |-> vis])
         IN WalkLevels(g, acc.next, acc.nextCount, acc.visited, acc.fields)

typeFields(g, t) ==
    Resolve(WalkLevels(g, <<QueueEntry(<<>>, <<>>, StructType(t))>>, NoCount, {}, <<>>))

\* field.ColName: "ctx"."fname" as "name", or "ctx"."name".
Quoted(str) == <<"\"">> \o str \o <<"\"">>
ColName(f) ==
    IF f.name # f.fname
    THEN Quoted(f.ctx) \o <<".">> \o Quoted(f.fname) \o <<" ", "a", "s", " ">> \o Quoted(f.name)
    ELSE Quoted(f.ctx) \o <<".">> \o Quoted(f.name)

\* columns(v, fields): the column reference of each field, in order.
columns(fs) == [i \in 1..Len(fs) |-> ColName(fs[i])]

---------------------------------------------------------------------------
(* scan *)

\* Bounds of the row source.
MaxCols == 2
ScanTypes == 2

\* Column names a row source may report: q is bound to no field.
ColNames == { <<"x">>, <<"y">>, <<"q">> }
ColLists == UNION { [1..n -> ColNames] : n \in 0..MaxCols }

\* Errors a row source may raise, and the nil error.
Errors == { "ErrA", "ErrB" }
NoError == "nil"

\* A scan target: the address of the field at an index path, or a fresh
\* sql.RawBytes that takes the value and drops it.
Addr(index) == [kind |-> "addr", index |-> index]
Discard == [kind |-> "discard", index |-> <<>>]

\* A map whose every entry aliases the loop variable: the last field.
finfosOfLoopVar(fs) == [n \in { fs[i].name : i \in 1..Len(fs) } |-> fs[Len(fs)]]

\* finfos[f.name] = f for each field in order: a later field of a name
\* replaces an earlier one.
finfosOf(fs) ==
    [n \in { fs[i].name : i \in 1..Len(fs) } |->
        fs[CHOOSE i \in 1..Len(fs) :
              fs[i].name = n /\ \A j \in 1..Len(fs) : fs[j].name = n => j <= i]]

\* The target for one column name.
Target(finfos, name) ==
    IF name \in DOMAIN finfos THEN Addr(finfos[name].index) ELSE Discard

\* A target list that leaves out the columns bound to no field.
TargetsBoundOnly(fs, cs) ==
    LET all == [i \in 1..Len(cs) |-> Target(finfosOf(fs), cs[i])]
    IN SelectSeq(all, LAMBDA v : v.kind = "addr")

\* values: one target per column, in column order.
Targets(fs, cs) == [i \in 1..Len(cs) |-> Target(finfosOf(fs), cs[i])]

\* A scan that swallows the error of rows.Columns().
OnColumnsErrorNil(e) == NoError

\* What scan returns when rows.Columns() fails with e, and when rows.Scan does.
OnColumnsError(e) == e
OnScanError(e) == e

\* The destination after rows.Scan stored into the first k targets: each
\* addressed field holds the value of the last column stored into it (the
\* column's position stands for its value).
Stored(vals, k) ==
    LET hit == { i \in 1..k : vals[i].kind = "addr" } IN
    [p \in { vals[i].index : i \in hit } |->
        CHOOSE i \in hit : vals[i].index = p /\ \A j \in hit : vals[j].index = p => j <= i]

---------------------------------------------------------------------------
(* State *)

VARIABLES
    types,      \* the record types, as the type introspector reports them
    pc,         \* where the call is
    current,    \* typeFields: anonymous fields to explore at the current level
    next,       \* ... and at the next
    ci,         \* position of the range loop over current
    count,      \* count of queued types for the current level
    nextCount,  \* ... and for the next
    visited,    \* types already visited
    visits,     \* how many times each type's fields were scanned (history)
    fields,     \* fields found by the walk
    ret,        \* the list typeFields returned
    destOK,     \* Scan: whether dest is a pointer to a struct
    cols,       \* scan: the column names rows.Columns() returned
    values,     \* scan: the targets built for rows.Scan
    passed,     \* the target lists rows.Scan was called with, in call order
    colCalls,   \* how many times rows.Columns() was called
    written,    \* the destination fields rows.Scan stored into: index -> value
    raised,     \* the error the row source raised, NoError if none
    err,        \* what Scan returned
    finfos,     \* Session.finfos: the cached field list of each type
    writing,    \* the callers in the middle of a store into Session.finfos
    fatal,      \* the runtime stopped the program on a concurrent map access
    call,       \* each caller's call: where it is, its method, type and fields
    computed,   \* how many times typeFields ran for each type (history)
    stores      \* how many times each type's list was stored (history)

walkVars == <<current, next, ci, count, nextCount, visited, visits, fields, ret>>
scanVars == <<destOK, cols, values, passed, colCalls, written, raised, err>>
sessVars == <<finfos, writing, fatal, call, computed, stores>>
vars == <<types, pc, walkVars, scanVars, sessVars>>

\* The state typeFields(t) starts in (lines 102-114).
WalkInit ==
    /\ current = <<>>
    /\ next = <<QueueEntry(<<>>, <<>>, StructType(Root))>>
    /\ ci = 1
    /\ count = NoCount
    /\ nextCount = NoCount
    /\ visited = {}
    /\ visits = NoCount
    /\ fields = <<>>
    /\ ret = <<>>

ScanIdle ==
    /\ cols = <<>>
    /\ values = <<>>
    /\ passed = <<>>
    /\ colCalls = 0
    /\ written = Stored(<<>>, 0)
    /\ raised = NoError
    /\ err = NoError

\* Bounds of the Session model.
NumProcs == 2
SessionFields == 1

Procs == 1..NumProcs

IdleCall == [at |-> "idle", method |-> "none", typ |-> Root, fields |-> <<>>]

\* NewSession(): an empty cache, nobody calling.
SessionIdle ==
    /\ finfos = [t \in {} |-> <<>>]
    /\ writing = {}
    /\ fatal = FALSE
    /\ call = [p \in Procs |-> IdleCall]
    /\ computed = NoCount
    /\ stores = NoCount

---------------------------------------------------------------------------
(* typeFields as a state machine *)

\* typeFields(t) is called on the root of any of the type graphs.
Init ==
    /\ types \in TypeGraphs
    /\ pc = "walk"
    /\ destOK = TRUE
    /\ WalkInit
    /\ ScanIdle
    /\ SessionIdle

\* for len(next) > 0 { current, next = next, current[:0]; count, nextCount = ... }
NextLevel ==
    /\ pc = "walk"
    /\ ci > Len(current)
    /\ Len(next) > 0
    /\ current' = next
    /\ next' = <<>>
    /\ ci' = 1
    /\ count' = nextCount
    /\ nextCount' = NoCount
    /\ UNCHANGED <<types, pc, visited, visits, fields, ret, scanVars, sessVars>>

\* A type of the current level that was visited before is skipped.
SkipVisited ==
    /\ pc = "walk"
    /\ ci <= Len(current)
    /\ AlreadyVisited(visited, current[ci])
    /\ ci' = ci + 1
    /\ UNCHANGED <<types, pc, current, next, count, nextCount, visited, visits,
                   fields, ret, scanVars, sessVars>>

\* A type of the current level is visited: its fields are recorded or queued.
VisitType ==
    /\ pc = "walk"
    /\ ci <= Len(current)
    /\ ~AlreadyVisited(visited, current[ci])
    /\ LET f   == current[ci]
           acc == VisitFields(types, f, count[f.typ.id], 0,
                              [next |-> next, nextCount |-> nextCount, fields |-> fields])
       IN /\ visited' = visited \cup {f.typ.id}
          /\ visits' = [visits EXCEPT ![f.typ.id] = @ + 1]
          /\ next' = acc.next
          /\ nextCount' = acc.nextCount
          /\ fields' = acc.fields
    /\ ci' = ci + 1
    /\ UNCHANGED <<types, pc, current, count, ret, scanVars, sessVars>>

\* The frontier is empty: sort, annihilate, sort again, return.
Return ==
    /\ pc = "walk"
    /\ ci > Len(current)
    /\ Len(next) = 0
    /\ ret' = Resolve(fields)
    /\ pc' = "returned"
    /\ UNCHANGED <<types, current, next, ci, count, nextCount, visited, visits,
                   fields, scanVars, sessVars>>

Walk == NextLevel \/ SkipVisited \/ VisitType \/ Return

Next == Walk

Spec == Init /\ [][Next]_vars

\* typeFields runs to completion: no step of it waits on anything.
LiveSpec == Spec /\ WF_vars(Next)

---------------------------------------------------------------------------
(* Scan(dest, rows) as a state machine *)

\* The record types Scan is called on: those of the first ScanTypes types.
ScanGraphs == { g \in TypeGraphs : \A i \in Types : i > ScanTypes => g[i] = <<>> }

ScanInit ==
    /\ types \in ScanGraphs
    /\ pc = "Scan"
    /\ destOK \in BOOLEAN
    /\ WalkInit
    /\ ScanIdle
    /\ SessionIdle

\* dest is not a pointer to a struct: Scan panics.
ScanPanic ==
    /\ pc = "Scan"
    /\ ~destOK
    /\ pc' = "panic"
    /\ UNCHANGED <<types, walkVars, scanVars, sessVars>>

\* Scan calls typeFields(typ.Elem()).
ScanEnter ==
    /\ pc = "Scan"
    /\ destOK
    /\ pc' = "walk"
    /\ UNCHANGED <<types, walkVars, scanVars, sessVars>>

\* rows.Columns() fails: scan returns the error.
ColumnsFail ==
    /\ pc = "returned"
    /\ \E e \in Errors :
        /\ raised' = e
        /\ err' = OnColumnsError(e)
    /\ colCalls' = colCalls + 1
    /\ pc' = "failedColumns"
    /\ UNCHANGED <<types, walkVars, destOK, cols, values, passed, written, sessVars>>

\* rows.Columns() returns the column names: scan builds the targets.
ColumnsOK ==
    /\ pc = "returned"
    /\ \E c \in ColLists :
        /\ cols' = c
        /\ values' = Targets(ret, c)
    /\ colCalls' = colCalls + 1
    /\ pc' = "populate"
    /\ UNCHANGED <<types, walkVars, destOK, passed, written, raised, err, sessVars>>

\* rows.Scan(values...) fails after storing into the first k targets.
PopulateFail ==
    /\ pc = "populate"
    /\ passed' = Append(passed, values)
    /\ \E k \in 0..Len(values) :
        /\ k < Len(values) \/ k = 0
        /\ written' = Stored(values, k)
    /\ \E e \in Errors :
        /\ raised' = e
        /\ err' = OnScanError(e)
    /\ pc' = "failedPopulate"
    /\ UNCHANGED <<types, walkVars, destOK, cols, values, colCalls, sessVars>>

\* rows.Scan(values...) stores into every target: scan returns nil.
PopulateOK ==
    /\ pc = "populate"
    /\ passed' = Append(passed, values)
    /\ written' = Stored(values, Len(values))
    /\ err' = NoError
    /\ pc' = "done"
    /\ UNCHANGED <<types, walkVars, destOK, cols, values, colCalls, raised, sessVars>>

ScanNext ==
    \/ ScanPanic \/ ScanEnter
    \/ Walk
    \/ ColumnsFail \/ ColumnsOK
    \/ PopulateFail \/ PopulateOK

ScanSpec == ScanInit /\ [][ScanNext]_vars

---------------------------------------------------------------------------
(* Session.Scan and Session.Columns, called by concurrent callers *)

\* The record types of a program that shares one Session: each declares at
\* most SessionFields fields.
SessionGraphs == { g \in TypeGraphs : \A i \in Types : Len(g[i]) <= SessionFields }

SessionInit ==
    /\ types \in SessionGraphs
    /\ pc = "session"
    /\ destOK = TRUE
    /\ WalkInit
    /\ ScanIdle
    /\ SessionIdle

Running(p, at) == ~fatal /\ call[p].at = at

\* The map lookup fields, ok := s.finfos[valtyp].
Lookup(m, t) == IF t \in DOMAIN m THEN [ok |-> TRUE, fields |-> m[t]]
                ELSE [ok |-> FALSE, fields |-> <<>>]

\* The map store s.finfos[valtyp] = fields.
StoreIn(m, t, fs) == [k \in DOMAIN m \cup {t} |-> IF k = t THEN fs ELSE m[k]]

\* A caller enters Session.Scan with a pointer to a struct, or
\* Session.Columns with a struct.
Call(p) ==
    /\ Running(p, "idle")
    /\ \E m \in {"Scan", "Columns"}, t \in Types :
        call' = [call EXCEPT ![p] = [at |-> "lookup", method |-> m, typ |-> t,
                                     fields |-> <<>>]]
    /\ UNCHANGED <<types, pc, walkVars, scanVars, finfos, writing, fatal, computed, stores>>

\* A caller enters Session.Scan with a dest that is no pointer to a struct.
CallPanic(p) ==
    /\ Running(p, "idle")
    /\ call' = [call EXCEPT ![p] = [IdleCall EXCEPT !.at = "panic", !.method = "Scan"]]
    /\ UNCHANGED <<types, pc, walkVars, scanVars, finfos, writing, fatal, computed, stores>>

\* fields, ok := s.finfos[valtyp], while no store is under way.
LookupCache(p) ==
    /\ Running(p, "lookup")
    /\ writing = {}
    /\ LET r == Lookup(finfos, call[p].typ) IN
        call' = [call EXCEPT ![p].at = IF r.ok THEN "use" ELSE "compute",
                             ![p].fields = r.fields]
    /\ UNCHANGED <<types, pc, walkVars, scanVars, finfos, writing, fatal, computed, stores>>

\* The same read racing with another caller's store: the runtime may stop
\* the program, or the read sees the map before or after the store.
LookupRace(p) ==
    /\ Running(p, "lookup")
    /\ \E q \in writing :
        \/ /\ fatal' = TRUE
           /\ UNCHANGED call
        \/ /\ \E m \in {finfos, StoreIn(finfos, call[q].typ, call[q].fields)} :
                LET r == Lookup(m, call[p].typ) IN
                call' = [call EXCEPT ![p].at = IF r.ok THEN "use" ELSE "compute",
                                     ![p].fields = r.fields]
           /\ UNCHANGED fatal
    /\ UNCHANGED <<types, pc, walkVars, scanVars, finfos, writing, computed, stores>>

\* fields = typeFields(valtyp) on a miss.
Compute(p) ==
    /\ Running(p, "compute")
    /\ call' = [call EXCEPT ![p].at = "store",
                            ![p].fields = typeFields(types, call[p].typ)]
    /\ computed' = [computed EXCEPT ![call[p].typ] = @ + 1]
    /\ UNCHANGED <<types, pc, walkVars, scanVars, finfos, writing, fatal, stores>>

\* s.finfos[valtyp] = fields begins; a store racing with another store may
\* stop the program.
StoreBegin(p) ==
    /\ Running(p, "store")
    /\ \/ /\ writing' = writing \cup {p}
          /\ call' = [call EXCEPT ![p].at = "storing"]
          /\ UNCHANGED fatal
       \/ /\ writing # {}
          /\ fatal' = TRUE
          /\ UNCHANGED <<writing, call>>
    /\ UNCHANGED <<types, pc, walkVars, scanVars, finfos, computed, stores>>

\* ... and ends: the list is in the map.
StoreEnd(p) ==
    /\ Running(p, "storing")
    /\ finfos' = StoreIn(finfos, call[p].typ, call[p].fields)
    /\ writing' = writing \ {p}
    /\ stores' = [stores EXCEPT ![call[p].typ] = @ + 1]
    /\ call' = [call EXCEPT ![p].at = "use"]
    /\ UNCHANGED <<types, pc, walkVars, scanVars, fatal, computed>>

\* return scan(destv, fields, rows) / return columns(v, fields).
Finish(p) ==
    /\ Running(p, "use")
    /\ call' = [call EXCEPT ![p] = IdleCall]
    /\ UNCHANGED <<types, pc, walkVars, scanVars, finfos, writing, fatal, computed, stores>>

SessionNext ==
    \E p \in Procs :
        \/ Call(p) \/ CallPanic(p)
        \/ LookupCache(p) \/ LookupRace(p)
        \/ Compute(p)
        \/ StoreBegin(p) \/ StoreEnd(p)
        \/ Finish(p)

SessionSpec == SessionInit /\ [][SessionNext]_vars

---------------------------------------------------------------------------
(* Properties of typeFields *)

\* The fields of a list, and the positions of a list that carry bound name n.
Entries(fs) == { fs[i] : i \in 1..Len(fs) }
Named(fs, n) == { i \in 1..Len(fs) : fs[i].name = n }
NamesOf(fs) == { fs[i].name : i \in 1..Len(fs) }
Depth(f) == Len(f.index)

\* C1: when the root declares a leaf field with bound name n and fields with
\* bound name n are also reached through embedded types, the returned list
\* holds exactly one field named n, and it is the root's own (a path of
\* length 1).
C1_RootFieldShadowsEmbedded ==
    pc = "returned" =>
        \A n \in NamesOf(fields) :
            ( /\ \E f \in Entries(fields) : f.name = n /\ Depth(f) = 1
              /\ \E f \in Entries(fields) : f.name = n /\ Depth(f) > 1 )
            => /\ Cardinality(Named(ret, n)) = 1
               /\ \A k \in Named(ret, n) : Depth(ret[k]) = 1

\* C2: when the fields found under a bound name are exactly a shallower
\* untagged field and a deeper explicitly tagged field, the returned list
\* holds the deeper tagged field as the one field of that name.
C2_DeeperTaggedSurvives ==
    pc = "returned" =>
        \A s, d \in Entries(fields) :
            ( /\ s.name = d.name
              /\ ~s.tag /\ d.tag
              /\ Depth(s) < Depth(d)
              /\ { f \in Entries(fields) : f.name = s.name } = {s, d} )
            => { ret[k] : k \in Named(ret, s.name) } = {d}

\* Two embedded types at the same depth each contribute an untagged field
\* declared n, and no field bound to n lies at a shallower depth.
SameDepthPair(n, a, b) ==
    /\ a.index # b.index
    /\ a.name = n /\ b.name = n
    /\ a.fname = n /\ b.fname = n
    /\ ~a.tag /\ ~b.tag
    /\ Depth(a) = Depth(b) /\ Depth(a) > 1
    /\ \A f \in Entries(fields) : f.name = n => Depth(f) >= Depth(a)

\* C3 as stated: in that case the returned list holds no field named n.
C3_SameDepthPairAnnihilated ==
    pc = "returned" =>
        \A a, b \in Entries(fields) :
            SameDepthPair(a.name, a, b) => Named(ret, a.name) = {}

\* C3, amended: in that case, and when no explicitly tagged field bound to n
\* lies at the pair's depth, the returned list holds no field named n.
C3_UntaggedPairAnnihilated ==
    pc = "returned" =>
        \A a, b \in Entries(fields) :
            ( /\ SameDepthPair(a.name, a, b)
              /\ \A f \in Entries(fields) :
                    (f.name = a.name /\ f.tag) => Depth(f) > Depth(a) )
            => Named(ret, a.name) = {}

\* Witness of C3: typeFields returned on such a pair with nothing tagged at
\* its depth, and kept a field of another name.
C3_Witness ==
    /\ pc = "returned"
    /\ \E a, b \in Entries(fields) :
        /\ SameDepthPair(a.name, a, b)
        /\ \A f \in Entries(fields) : (f.name = a.name /\ f.tag) => Depth(f) > Depth(a)
        /\ ret # <<>>

\* C4: the returned list holds at most one field per bound name and no two
\* fields with the same path.
C4_ReturnedListUnique ==
    pc = "returned" =>
        \A i, j \in 1..Len(ret) :
            i # j => (ret[i].name # ret[j].name /\ ret[i].index # ret[j].index)

\* Witness of C4: typeFields returned a non-empty list having found three
\* or more fields under one name and a field recorded twice for a type
\* embedded twice at one level.
C4_Witness ==
    /\ pc = "returned"
    /\ ret # <<>>
    /\ \E n \in NamesOf(fields) : Cardinality(Named(fields, n)) >= 3
    /\ \E i, j \in 1..Len(fields) : i # j /\ fields[i] = fields[j]

\* Index sequence a precedes b in lexicographic order.
LexBefore(a, b) ==
    \/ Len(a) < Len(b) /\ SubSeq(b, 1, Len(a)) = a
    \/ \E k \in 1..Len(a) :
        /\ k <= Len(b)
        /\ SubSeq(a, 1, k - 1) = SubSeq(b, 1, k - 1)
        /\ a[k] < b[k]

\* C9 as stated: the returned list is ordered shallowest path first, and by
\* structural index among paths of equal depth.
C9_ShallowestFirst ==
    pc = "returned" =>
        \A i, j \in 1..Len(ret) :
            i < j => \/ Depth(ret[i]) < Depth(ret[j])
                     \/ /\ Depth(ret[i]) = Depth(ret[j])
                        /\ LexBefore(ret[i].index, ret[j].index)

\* C9, amended: the returned list is in strictly increasing lexicographic
\* order of index sequences, whatever the depths.
C9_LexicographicByIndex ==
    pc = "returned" =>
        \A i, j \in 1..Len(ret) : i < j => LexBefore(ret[i].index, ret[j].index)

\* Witness of C9: a field reached through an embedded type is returned
\* before a field of the root.
C9_Witness ==
    /\ pc = "returned"
    /\ \E i, j \in 1..Len(ret) : i < j /\ Depth(ret[i]) > 1 /\ Depth(ret[j]) = 1

\* C10: the walk scans each record type at most once and typeFields returns.
C10_WalkTerminates ==
    /\ [](\A t \in Types : visits[t] <= 1)
    /\ <>(pc = "returned")

\* Witness of C10: typeFields returned having scanned every type, one of
\* which embeds the root again, so that the walk met the root a second time.
C10_Witness ==
    /\ pc = "returned"
    /\ Cardinality(visited) = NumTypes
    /\ \E t \in visited \ {Root} : \E k \in 1..Len(types[t]) :
          types[t][k] = EmbedField(t, Root)

---------------------------------------------------------------------------
(* Properties of scan *)

Range(q) == { q[i] : i \in 1..Len(q) }

C7_MissingColumnsUntouched ==
    (pc = "done" /\ err = NoError) =>
        \A f \in Entries(fields) :
            f.name \notin Range(cols) => f.index \notin DOMAIN written

\* Witness of C7: a successful scan stored into one field and the column
\* list lacked the name of another returned field.
C7_Witness ==
    /\ pc = "done"
    /\ err = NoError
    /\ DOMAIN written # {}
    /\ \E f \in Entries(ret) : f.name \notin Range(cols)

\* C8: when rows.Columns() fails, rows.Scan is never called, nothing is
\* stored and Scan returns the error raised; when rows.Scan fails, Scan
\* returns the error raised; neither call is made a second time.
C8_RowSourceErrorReturned ==
    /\ colCalls <= 1
    /\ Len(passed) <= 1
    /\ pc = "failedColumns" =>
        /\ raised \in Errors
        /\ err = raised
        /\ passed = <<>>
        /\ DOMAIN written = {}
    /\ pc = "failedPopulate" =>
        /\ raised \in Errors
        /\ err = raised

\* Witness of C8: rows.Columns() failed for a type with fields to bind.
C8_Witness ==
    /\ pc = "failedColumns"
    /\ ret # <<>>
    /\ colCalls = 1

---------------------------------------------------------------------------
(* Properties of the Session's cache *)

\* C5: whatever the interleaving of the callers, typeFields runs at most
\* once for each type and its list is stored at most once.
C5_ComputedOncePerType ==
    \A t \in Types : computed[t] <= 1 /\ stores[t] <= 1

\* The walk as a state machine and typeFields as a function agree.
WalkAgrees == pc = "returned" => ret = typeFields(types, Root)

====
